---- MODULE Spec2Model ----
(***************************************************************************)
(* Model of src/vs/workbench/contrib/remote/browser/remoteExplorer.ts:     *)
(* the two workbench contributions ForwardedPortsView and                  *)
(* AutomaticPortForwarding, together with the part of the services they    *)
(* read and write (tunnel model, context keys, configuration, views        *)
(* registry, activity service, status bar, terminal URL finder).           *)
(*                                                                         *)
(* Every handler runs to completion on the UI thread, so each event is one *)
(* action that contains every listener the event reaches.  The only        *)
(* asynchronous step is remoteExplorerService.forward (line 173): a        *)
(* request is issued by the match handler and completes in a later action. *)
(***************************************************************************)
EXTENDS Integers, Sequences, FiniteSets, Bags

\* ------------------------------------------------------------------ bounds
\* entries the forwarded-port map holds at most
MaxForwarded == 2
\* forward requests in flight at most
MaxPending == 2
\* status-bar entries ever added
MaxEntries == 2
\* UrlFinder objects ever created
MaxFinders == 2

\* ------------------------------------------------------------ value domains
Hosts == {"127.0.0.1", "0.0.0.0", "10.0.0.5"}
PrintedPorts == {3000}       \* ports of the URLs the terminals print

\* remoteExplorerService.MakeAddress(host, port): the key of the forwarded
\* map (host + ':' + port); the pair identifies the string.
MakeAddress(host, port) == <<host, port>>

\* the tunnels that can be open: one per printed URL, and one more port
Addresses == {MakeAddress(h, p) : h \in Hosts, p \in PrintedPorts}
                 \cup {MakeAddress("127.0.0.1", 8080)}
LocalUrls == [host : Hosts, port : PrintedPorts]

VARIABLES
    remoteAuthority,   \* environmentService.remoteAuthority is set
    hasViewContainer,  \* getViewContainerById(VIEWLET_ID) finds a container
    viewEnabled,       \* forwardedPortsViewEnabled context key
    setting,           \* configuration value of remote.autoForwardPorts
    forwarded,         \* keys of tunnelModel.forwarded
    pending,           \* forward requests in flight, a bag of LocalUrls
    view,              \* ForwardedPortsView and the UI it drives
    auto,              \* AutomaticPortForwarding and its scanners
    flagEverTrue,      \* history: viewEnabled has been true since construction
    cycle,             \* history: progress of enable, disable, enable, disable
    notification       \* what the step just taken did after its await

vars == <<remoteAuthority, hasViewContainer, viewEnabled, setting, forwarded,
          pending, view, auto, flagEverTrue, cycle, notification>>

\* ------------------------------------------------------------ helpers
Size(fwd) == Cardinality(fwd)

RECURSIVE RemoveOne(_, _)
\* s without its first element equal to x
RemoveOne(s, x) ==
    IF s = <<>> THEN <<>>
    ELSE IF Head(s) = x THEN Tail(s)
    ELSE <<Head(s)>> \o RemoveOne(Tail(s), x)

Live(handles) == {i \in DOMAIN handles : handles[i] = "live"}

\* the bag of n copies of x
Copies(x, n) == [e \in {x} |-> n]

\* Disposable.dispose() over the handles a controller passed to _register:
\* every registered handle is disposed, whatever its state.  kind is
\* recorded in redisposed when one of them had been disposed before.
disposeAll(handles) == [i \in DOMAIN handles |-> "disposed"]
Redisposed(handles, kind) ==
    IF \E i \in DOMAIN handles : handles[i] = "disposed" THEN {kind} ELSE {}

\* ------------------------------------------------ ForwardedPortsView
\* viewDescriptorService.getViewContainerByViewId(TUNNEL_VIEW_ID), lines
\* 92-93: a view has a container once the view is registered.
getViewContainerByViewId(v) == v.registered > 0

\* faulty variant of disposeActivityBadge: the previous badge is left shown
disposeActivityBadge_noop(v) == v

\* this._activityBadge.dispose(), lines 88-90; the field keeps the handle.
disposeActivityBadge(v) ==
    IF v.activityBadge = <<>> THEN v
    ELSE LET b == v.activityBadge[1]
         IN IF b.disposed
            THEN [v EXCEPT !.redisposed = @ \cup {"activityBadge"}]
            ELSE [v EXCEPT !.activity = RemoveOne(@, b.number),
                           !.activityBadge = <<[b EXCEPT !.disposed = TRUE]>>]

\* activityService.showViewContainerActivity(id, NumberBadge(size)), 94-96
showViewContainerActivity(v, n) ==
    [v EXCEPT !.activity = Append(@, n),
              !.activityBadge = <<[number |-> n, disposed |-> FALSE]>>]

\* faulty variant of updateActivityBadge: the previous badge is not
\* released before the next is shown
updateActivityBadge_keepOld(v, fwd) ==
    IF Size(fwd) > 0 /\ getViewContainerByViewId(v)
    THEN showViewContainerActivity(v, Size(fwd))
    ELSE v

\* ForwardedPortsView.updateActivityBadge, lines 87-99
updateActivityBadge(v, fwd) ==
    LET d == disposeActivityBadge(v)
    IN IF Size(fwd) > 0 /\ getViewContainerByViewId(d)
       THEN showViewContainerActivity(d, Size(fwd))
       ELSE d

\* this.entryAccessor.dispose(), line 105
disposeEntry(v) ==
    LET i == v.entryAccessor
    IN IF v.entries[i] = "disposed"
       THEN [v EXCEPT !.redisposed = @ \cup {"entryAccessor"}]
       ELSE [v EXCEPT !.entries[i] = "disposed"]

\* statusbarService.addEntry(...), line 103
addEntry(v) ==
    [v EXCEPT !.entries = Append(@, "live"),
              !.entryAccessor = Len(v.entries) + 1]

\* faulty variant of updateStatusBar: the entry is added whenever the map
\* is not empty
updateStatusBar_alwaysAdd(v, fwd) ==
    IF Size(fwd) > 0 THEN addEntry(v)
    ELSE IF v.entryAccessor # 0 /\ Size(fwd) = 0
    THEN [disposeEntry(v) EXCEPT !.entryAccessor = 0]
    ELSE v

\* faulty variant of updateStatusBar: the entry is never removed
updateStatusBar_neverRemove(v, fwd) ==
    IF v.entryAccessor = 0 /\ Size(fwd) > 0 THEN addEntry(v) ELSE v

\* ForwardedPortsView.updateStatusBar, lines 101-108
updateStatusBar(v, fwd) ==
    IF v.entryAccessor = 0 /\ Size(fwd) > 0
    THEN addEntry(v)
    ELSE IF v.entryAccessor # 0 /\ Size(fwd) = 0
    THEN [disposeEntry(v) EXCEPT !.entryAccessor = 0]
    ELSE v

\* the onForwardPort and onClosePort listeners, lines 70-77
onTunnelModelChange(v, fwd) ==
    updateStatusBar(updateActivityBadge(v, fwd), fwd)

\* the onViewsRegistered listener for a registration that holds
\* TUNNEL_VIEW_ID, lines 78-84; it unsubscribes itself
onViewsRegistered(v, fwd) ==
    IF v.viewsListener
    THEN [updateStatusBar(updateActivityBadge(v, fwd), fwd)
             EXCEPT !.viewsListener = FALSE]
    ELSE v

\* viewsRegistry.registerViews([tunnelPanelDescriptor], viewContainer),
\* line 58: the registry records the view and fires onViewsRegistered
registerViews(v, fwd) ==
    onViewsRegistered([v EXCEPT !.registered = @ + 1], fwd)

\* faulty variant of enableForwardedPortsView: the capability listener
\* stays attached after the panel is registered
enableForwardedPortsView_keepListening(v, remote, enabled, container, fwd) ==
    IF remote /\ enabled
    THEN IF container
         THEN [registerViews(v, fwd) EXCEPT !.contextKeyListener = TRUE]
         ELSE v
    ELSE IF remote THEN [v EXCEPT !.contextKeyListener = TRUE]
    ELSE v

\* faulty variant of enableForwardedPortsView: the panel is registered only
\* when the controller is constructed; a later change of the flag keeps
\* the listener and registers nothing
enableForwardedPortsView_onceOnly(v, remote, enabled, container, fwd) ==
    LET d == [v EXCEPT !.contextKeyListener = FALSE]
    IN IF remote /\ enabled /\ ~v.contextKeyListener
       THEN IF container THEN registerViews(d, fwd) ELSE d
       ELSE IF remote THEN [d EXCEPT !.contextKeyListener = TRUE]
       ELSE d

\* ForwardedPortsView.enableForwardedPortsView, lines 46-67
enableForwardedPortsView(v, remote, enabled, container, fwd) ==
    LET d == [v EXCEPT !.contextKeyListener = FALSE]     \* lines 47-50
    IN IF remote /\ enabled
       THEN IF container THEN registerViews(d, fwd) ELSE d
       ELSE IF remote THEN [d EXCEPT !.contextKeyListener = TRUE]
       ELSE d

\* the fields of a ForwardedPortsView before its constructor body runs;
\* enableBadgeAndStatusBar (line 42) has subscribed the three listeners
ViewFields ==
    [contextKeyListener |-> FALSE,   \* this.contextKeyListener is attached
     activityBadge |-> <<>>,         \* this._activityBadge
     entryAccessor |-> 0,            \* this.entryAccessor, index in entries
     activity |-> <<>>,              \* numbers of the badges the service shows
     entries |-> <<>>,               \* status-bar entries ever added
     registered |-> 0,               \* registrations of the tunnel panel
     viewsListener |-> TRUE,         \* onViewsRegistered listener subscribed
     disposed |-> FALSE,             \* the contribution's store is disposed
     redisposed |-> {}]              \* handles disposed a second time

\* ForwardedPortsView.constructor, lines 30-44
ForwardedPortsViewConstructor(remote, enabled, container, fwd) ==
    enableForwardedPortsView(ViewFields, remote, enabled, container, fwd)

\* Disposable.dispose() of ForwardedPortsView: the handles given to
\* this._register are released: the onForwardPort and onClosePort
\* listeners (70, 74) and the status-bar entries (103).  contextKeyListener
\* (61), the onViewsRegistered listener (78) and _activityBadge (94) were
\* never registered.
disposeForwardedPortsView(v) ==
    [v EXCEPT !.disposed = TRUE,
              !.entries = disposeAll(@),
              !.redisposed = @ \cup Redisposed(v.entries, "entryAccessor")]

\* ------------------------------------- remoteExplorerService helpers
isLocalhost(host) == host \in {"localhost", "127.0.0.1"}
isAllInterfaces(host) == host = "0.0.0.0"

\* remoteExplorerService.mapHasTunnel(map, host, port)
mapHasTunnel(map, host, port) ==
    IF ~isLocalhost(host) THEN MakeAddress(host, port) \in map
    ELSE \/ MakeAddress("localhost", port) \in map
         \/ MakeAddress("127.0.0.1", port) \in map

\* remoteExplorerService.mapHasTunnelLocalhostOrAllInterfaces(map, host,
\* port), called at line 170: localhost and all-interfaces addresses stand
\* for each other
mapHasTunnelLocalhostOrAllInterfaces(map, host, port) ==
    IF mapHasTunnel(map, host, port) THEN TRUE
    ELSE IF isAllInterfaces(host) THEN mapHasTunnel(map, "localhost", port)
    ELSE IF isLocalhost(host) THEN mapHasTunnel(map, "0.0.0.0", port)
    ELSE FALSE

\* --------------------------------------------- AutomaticPortForwarding
\* faulty variant of onDidMatchLocalUrl: the handler compares the exact
\* address only
onDidMatchLocalUrl_exactOnly(fwd, localUrl) ==
    MakeAddress(localUrl.host, localUrl.port) \notin fwd

\* the onDidMatchLocalUrl listener up to its await, lines 169-173: TRUE when
\* it calls remoteExplorerService.forward(localUrl)
onDidMatchLocalUrl(fwd, localUrl) ==
    ~mapHasTunnelLocalhostOrAllInterfaces(fwd, localUrl.host, localUrl.port)

\* faulty variant of forwardRequests: a URL with a request in flight is
\* not requested again
forwardRequests_skipInFlight(pend, localUrl, n) ==
    IF BagIn(localUrl, pend) THEN pend ELSE pend (+) Copies(localUrl, 1)

\* faulty variant of forwardRequests: each listener calls forward twice
forwardRequests_twice(pend, localUrl, n) ==
    pend (+) Copies(localUrl, 2 * n)

\* remoteExplorerService.forward(localUrl), line 173, called once by each
\* of the n match listeners the URL reaches: the requests in flight after
\* the calls
forwardRequests(pend, localUrl, n) == pend (+) Copies(localUrl, n)

\* faulty variant of afterForward: the prompt is shown whatever forward
\* returned
afterForward_alwaysPrompt(entry) == 1

\* the onDidMatchLocalUrl listener after its await, lines 174-194: the
\* number of notificationService.prompt calls, given that forward returned
\* an entry or none
afterForward(entry) == IF entry THEN 1 ELSE 0

\* this.contextServiceListener.dispose(), lines 165-167; the field keeps
\* the handle
disposeContextServiceListener(a) ==
    IF a.contextServiceListener = "undefined" THEN a
    ELSE IF a.contextServiceListener = "disposed"
    THEN [a EXCEPT !.redisposed = @ \cup {"contextServiceListener"}]
    ELSE [a EXCEPT !.contextServiceListener = "disposed"]

\* new UrlFinder(terminalService) and its match listener, lines 168-169
newUrlFinder(a) ==
    [a EXCEPT !.finders = Append(@, "live"),
              !.listeners = Append(@, "live"),
              !.urlFinder = Len(a.finders) + 1]

\* AutomaticPortForwarding.startUrlFinder, lines 161-196
startUrlFinder(a, enabled) ==
    IF a.urlFinder = 0 /\ ~enabled THEN a               \* lines 162-164
    ELSE newUrlFinder(disposeContextServiceListener(a))

\* AutomaticPortForwarding.stopUrlFinder, lines 198-203
stopUrlFinder(a) ==
    IF a.urlFinder # 0
    THEN IF a.finders[a.urlFinder] = "disposed"
         THEN [a EXCEPT !.redisposed = @ \cup {"urlFinder"},
                        !.urlFinder = 0]
         ELSE [a EXCEPT !.finders[a.urlFinder] = "disposed",
                        !.urlFinder = 0]
    ELSE a

\* AutomaticPortForwarding.tryStartStopUrlFinder, lines 153-159
tryStartStopUrlFinder(a, autoForward, enabled) ==
    IF autoForward THEN startUrlFinder(a, enabled) ELSE stopUrlFinder(a)

\* the fields of an AutomaticPortForwarding before its constructor body
AutoFields ==
    [contextServiceListener |-> "undefined",  \* this.contextServiceListener
     urlFinder |-> 0,          \* this.urlFinder, index in finders
     finders |-> <<>>,         \* UrlFinder objects ever created
     listeners |-> <<>>,       \* listeners[i]: match listener of finders[i]
     disposed |-> FALSE,       \* the contribution's store is disposed
     redisposed |-> {}]        \* handles disposed a second time

\* AutomaticPortForwarding.constructor, lines 126-151
AutomaticPortForwardingConstructor(remote, autoForward, enabled) ==
    IF remote
    THEN tryStartStopUrlFinder(
             [AutoFields EXCEPT !.contextServiceListener = "attached"],
             autoForward, enabled)
    ELSE AutoFields

\* Disposable.dispose() of AutomaticPortForwarding: the handles given to
\* this._register are released: the configuration listener (137), the
\* context listener (144), every UrlFinder (168) and every match
\* listener (169)
disposeAutomaticPortForwarding(a) ==
    [a EXCEPT !.disposed = TRUE,
              !.contextServiceListener =
                  IF @ = "undefined" THEN @ ELSE "disposed",
              !.finders = disposeAll(@),
              !.listeners = disposeAll(@),
              !.redisposed = @ \cup Redisposed(a.finders, "urlFinder")
                  \cup (IF a.contextServiceListener = "disposed"
                        THEN {"contextServiceListener"} ELSE {})]

\* UrlFinder: the finders that report a local URL found in terminal output
\* to a subscribed match listener; a disposed finder reports nothing
Scanning(a) ==
    {i \in DOMAIN a.finders :
        a.finders[i] = "live" /\ a.listeners[i] = "live"}

\* ------------------------------------------------------- history
\* progress through "enable, disable, enable, disable" of the setting in
\* succession, counted from a construction with the setting off; -1 once
\* any other event has happened
NextCycle(c, old, new) ==
    IF c \in 0..3 /\ old # new /\ new = (c % 2 = 0) THEN c + 1 ELSE -1

\* ------------------------------------------------------- initial state
\* Both contributions have been constructed, in a window with or without a
\* remote authority and with any value of the flag and of the setting; no
\* port is forwarded yet and no forward request is in flight.
Init ==
    /\ remoteAuthority \in BOOLEAN
    /\ hasViewContainer \in BOOLEAN
    /\ viewEnabled \in BOOLEAN
    /\ setting \in BOOLEAN
    /\ forwarded = {}
    /\ pending = EmptyBag
    /\ view = ForwardedPortsViewConstructor(remoteAuthority, viewEnabled,
                                            hasViewContainer, forwarded)
    /\ auto = AutomaticPortForwardingConstructor(remoteAuthority, setting,
                                                 viewEnabled)
    /\ flagEverTrue = viewEnabled
    /\ cycle = IF setting THEN -1 ELSE 0
    /\ notification = <<>>

\* ------------------------------------------------------- actions
\* configurationService.onDidChangeConfiguration for the setting: the
\* event names the key; the effective value is v afterwards (line 137)
ConfigurationChange(v) ==
    /\ setting' = v
    /\ auto' = IF auto.disposed THEN auto
               ELSE tryStartStopUrlFinder(auto, v, viewEnabled)
    /\ Len(auto'.finders) <= MaxFinders
    /\ cycle' = IF auto.disposed THEN -1 ELSE NextCycle(cycle, setting, v)
    /\ notification' = <<>>
    /\ UNCHANGED <<remoteAuthority, hasViewContainer, viewEnabled, forwarded,
                   pending, view, flagEverTrue>>

\* contextKeyService.onDidChangeContext for forwardedPortsViewEnabled: the
\* key changes value; both controllers' listeners run (lines 61, 144)
ContextChange ==
    /\ viewEnabled' = ~viewEnabled
    /\ flagEverTrue' = (flagEverTrue \/ viewEnabled')
    /\ view' = IF view.contextKeyListener
               THEN enableForwardedPortsView(view, remoteAuthority,
                        viewEnabled', hasViewContainer, forwarded)
               ELSE view
    /\ Len(view'.entries) <= MaxEntries
    /\ auto' = IF auto.contextServiceListener = "attached"
               THEN tryStartStopUrlFinder(auto, setting, viewEnabled')
               ELSE auto
    /\ Len(auto'.finders) <= MaxFinders
    /\ cycle' = -1
    /\ notification' = <<>>
    /\ UNCHANGED <<remoteAuthority, hasViewContainer, setting, forwarded,
                   pending>>

\* the tunnel model gains an entry and fires onForwardPort (line 70)
Forwarded(address) ==
    /\ forwarded' = forwarded \cup {address}
    /\ Size(forwarded') <= MaxForwarded
    /\ view' = IF view.disposed THEN view
               ELSE onTunnelModelChange(view, forwarded')
    /\ Len(view'.entries) <= MaxEntries

\* a port is forwarded from outside this file (the Forward a Port command)
TunnelForward(address) ==
    /\ address \notin forwarded
    /\ Forwarded(address)
    /\ cycle' = -1
    /\ notification' = <<>>
    /\ UNCHANGED <<remoteAuthority, hasViewContainer, viewEnabled, setting,
                   pending, auto, flagEverTrue>>

\* a tunnel closes: the tunnel model drops the entry and fires onClosePort
\* (line 74)
TunnelClose(address) ==
    /\ address \in forwarded
    /\ forwarded' = forwarded \ {address}
    /\ view' = IF view.disposed THEN view
               ELSE onTunnelModelChange(view, forwarded')
    /\ cycle' = -1
    /\ notification' = <<>>
    /\ UNCHANGED <<remoteAuthority, hasViewContainer, viewEnabled, setting,
                   pending, auto, flagEverTrue>>

\* faulty variant of TerminalData: the match listener writes the detected
\* address into the forwarded map itself
TerminalData_writesMap(localUrl) ==
    /\ Scanning(auto) # {}
    /\ forwarded' = forwarded \cup {MakeAddress(localUrl.host, localUrl.port)}
    /\ Size(forwarded') <= MaxForwarded
    /\ pending' = IF onDidMatchLocalUrl(forwarded, localUrl)
                  THEN forwardRequests(pending, localUrl,
                                       Cardinality(Scanning(auto)))
                  ELSE pending
    /\ BagCardinality(pending') <= MaxPending
    /\ cycle' = -1
    /\ notification' = <<>>
    /\ UNCHANGED <<remoteAuthority, hasViewContainer, viewEnabled, setting,
                   view, auto, flagEverTrue>>

\* terminal output shows localUrl: every scanning UrlFinder fires
\* onDidMatchLocalUrl and its listener runs up to the await of line 173
TerminalData(localUrl) ==
    /\ Scanning(auto) # {}
    /\ pending' = IF onDidMatchLocalUrl(forwarded, localUrl)
                  THEN forwardRequests(pending, localUrl,
                                       Cardinality(Scanning(auto)))
                  ELSE pending
    /\ BagCardinality(pending') <= MaxPending
    /\ cycle' = -1
    /\ notification' = <<>>
    /\ UNCHANGED <<remoteAuthority, hasViewContainer, viewEnabled, setting,
                   forwarded, view, auto, flagEverTrue>>

\* remoteExplorerService.forward(localUrl) completes (line 173): with an
\* entry, which the tunnel model has added to the map, or with none; the
\* listener resumes after its await (lines 174-194)
ForwardComplete(localUrl, ok) ==
    /\ BagIn(localUrl, pending)
    /\ pending' = pending (-) Copies(localUrl, 1)
    /\ IF ok
       THEN Forwarded(MakeAddress(localUrl.host, localUrl.port))
       ELSE UNCHANGED <<forwarded, view>>
    /\ cycle' = -1
    /\ notification' = <<[entry |-> ok, prompts |-> afterForward(ok)]>>
    /\ UNCHANGED <<remoteAuthority, hasViewContainer, viewEnabled, setting,
                   auto, flagEverTrue>>

\* the workbench disposes the ForwardedPortsView contribution
DisposeForwardedPortsView ==
    /\ ~view.disposed
    /\ view' = disposeForwardedPortsView(view)
    /\ cycle' = -1
    /\ notification' = <<>>
    /\ UNCHANGED <<remoteAuthority, hasViewContainer, viewEnabled, setting,
                   forwarded, pending, auto, flagEverTrue>>

\* the workbench disposes the AutomaticPortForwarding contribution
DisposeAutomaticPortForwarding ==
    /\ ~auto.disposed
    /\ auto' = disposeAutomaticPortForwarding(auto)
    /\ cycle' = -1
    /\ notification' = <<>>
    /\ UNCHANGED <<remoteAuthority, hasViewContainer, viewEnabled, setting,
                   forwarded, pending, view, flagEverTrue>>

Next ==
    \/ \E v \in BOOLEAN : ConfigurationChange(v)
    \/ ContextChange
    \/ \E address \in Addresses : TunnelForward(address)
    \/ \E address \in Addresses : TunnelClose(address)
    \/ \E localUrl \in LocalUrls : TerminalData(localUrl)
    \/ \E localUrl \in LocalUrls, ok \in BOOLEAN : ForwardComplete(localUrl, ok)
    \/ DisposeForwardedPortsView
    \/ DisposeAutomaticPortForwarding

Spec == Init /\ [][Next]_vars

\* ------------------------------------------------------- claims
\* the hosts that stand for each other: localhost names and all-interfaces
LocalOrAllInterfaces == {"localhost", "127.0.0.1", "0.0.0.0"}

\* fwd holds an entry with localUrl's port and an equivalent host
Covered(fwd, localUrl) ==
    \E a \in fwd :
        /\ a[2] = localUrl.port
        /\ \/ a[1] = localUrl.host
           \/ {a[1], localUrl.host} \subseteq LocalOrAllInterfaces

\* C1: whenever the match handler issues a forward request for a detected
\* (host, port), the forwarded map read at that moment holds no entry with
\* that port and an equivalent host
C1_NoForwardWhenCovered ==
    [][\A u \in LocalUrls :
          CopiesIn(u, pending') > CopiesIn(u, pending)
              => ~Covered(forwarded, u)]_vars

\* C1 witness: a request is in flight for a URL whose port is forwarded
\* already, for a host that is not equivalent
C1_Witness ==
    \E u \in LocalUrls :
        /\ BagIn(u, pending)
        /\ \E a \in forwarded : a[2] = u.port
        /\ ~Covered(forwarded, u)

\* C2 as claimed: while ForwardedPortsView is live, a live badge with
\* number = size exists when size > 0, and no live badge when size = 0
C2_BadgeEqualsSize ==
    ~view.disposed =>
        view.activity = IF Size(forwarded) > 0 THEN <<Size(forwarded)>>
                        ELSE <<>>

\* C2 amended: while ForwardedPortsView is live, a live badge with
\* number = size exists when size > 0 and the forwarded-ports panel is
\* registered; no live badge exists when size = 0 or the panel is not
\* registered
C2_BadgeEqualsSizeOnceRegistered ==
    ~view.disposed =>
        view.activity = IF Size(forwarded) > 0 /\ view.registered > 0
                        THEN <<Size(forwarded)>>
                        ELSE <<>>

\* C2 witness: the badge of a registered panel has followed the map to 2
\* entries
C2_Witness ==
    /\ ~view.disposed
    /\ view.registered > 0
    /\ Size(forwarded) = 2
    /\ view.activity = <<2>>

\* C3: while ForwardedPortsView is live, a status-bar entry is present
\* exactly when the forwarded map is not empty
C3_StatusBarIffNonEmpty ==
    ~view.disposed =>
        /\ (Live(view.entries) # {}) <=> (Size(forwarded) > 0)
        /\ (view.entryAccessor # 0) <=> (Size(forwarded) > 0)

\* C3 witness: an entry was added, removed when the map emptied, and a
\* second one added when a port was forwarded again
C3_Witness ==
    /\ ~view.disposed
    /\ Size(forwarded) > 0
    /\ view.entries = <<"disposed", "live">>

\* C4: there is never more than one live status-bar entry, and a
\* notification that finds the entry as the new size requires it (present
\* with size > 0, absent with size = 0) adds and removes nothing
C4_StatusBarIdempotent ==
    /\ [](Cardinality(Live(view.entries)) <= 1)
    /\ [][(/\ ~view'.disposed
           /\ (view.entryAccessor # 0) <=> (Size(forwarded') > 0))
              => view'.entries = view.entries]_vars

\* C4 witness: a second forward notification found the entry present
C4_Witness ==
    /\ ~view.disposed
    /\ Size(forwarded) = 2
    /\ view.entries = <<"live">>

\* C5 as claimed: a start that finds a scanner creates no scanner and no
\* listener, at most one scanner is live, and a stop that finds no scanner
\* changes nothing
C5_RestartIsNoOp ==
    /\ [](Cardinality(Live(auto.finders)) <= 1)
    /\ [][(~auto'.disposed /\ auto.urlFinder # 0 /\ setting')
              => /\ Len(auto'.finders) = Len(auto.finders)
                 /\ Len(auto'.listeners) = Len(auto.listeners)]_vars
    /\ [][(~auto'.disposed /\ auto.urlFinder = 0 /\ ~setting')
              => auto' = auto]_vars

\* C6 as claimed: from a stop until the next start (this.urlFinder is
\* undefined) no detected URL reaches the match handler, so no forward
\* request is issued
C6_NoMatchAfterStop ==
    [][auto.urlFinder = 0
          => BagCardinality(pending') <= BagCardinality(pending)]_vars

\* C7 as claimed: with the capability flag true, enable, disable, enable,
\* disable of the setting in succession gives one scanner per enable,
\* released by the disable, and after the last disable no scanner and no
\* listener of those cycles is live
C7_OneLifecyclePerEnable ==
    viewEnabled =>
        /\ cycle \in {1, 3} =>
              /\ Len(auto.finders) = (cycle + 1) \div 2
              /\ Live(auto.finders) = {auto.urlFinder}
        /\ cycle \in {2, 4} =>
              /\ Len(auto.finders) = cycle \div 2
              /\ Live(auto.finders) = {}
              /\ auto.urlFinder = 0
        /\ cycle = 4 => Live(auto.listeners) = {}

\* C8: the forwarded-ports panel is registered at most once, and never
\* while the capability flag has been false since construction
C8_PanelRegisteredOnce ==
    /\ view.registered <= 1
    /\ view.registered > 0 => flagEverTrue

\* C8 witness: the panel is registered and the flag has gone back to false
C8_Witness ==
    /\ view.registered = 1
    /\ ~viewEnabled
    /\ view.contextKeyListener = FALSE

\* C9 as claimed: no handle (activity badge, status-bar entry accessor,
\* capability-change listener, UrlFinder) is disposed more than once
C9_DisposedOnce == view.redisposed = {} /\ auto.redisposed = {}

\* C10 as claimed: after ForwardedPortsView is torn down no event makes it
\* register the panel, show a badge or add a status-bar entry
C10_NothingAfterTeardown ==
    [][view.disposed
          => /\ view'.registered = view.registered
             /\ Len(view'.activity) <= Len(view.activity)
             /\ Len(view'.entries) = Len(view.entries)]_vars

\* C11: a prompt is shown only by a step that completes a forward request,
\* exactly one when the request returned an entry and none (no prompt, no
\* failure message) when it returned no entry
C11_PromptOnlyForEntry ==
    /\ [](notification # <<>> =>
             notification[1].prompts = IF notification[1].entry THEN 1 ELSE 0)
    /\ [][BagCardinality(pending') >= BagCardinality(pending)
             => notification' = <<>>]_vars

\* C11 witness: a forward request has just returned no entry
C11_Witness ==
    notification = <<[entry |-> FALSE, prompts |-> 0]>>

\* a detection of u adds a request for u
Requests(u) ==
    TerminalData(u) /\ CopiesIn(u, pending') > CopiesIn(u, pending)

\* C12: the dedup check reads the forwarded map only: while a request for
\* a URL is in flight and no entry covers it, a scanner that detects the URL
\* again issues a further request for it (within the bound on requests in
\* flight), and issuing a request leaves the map as it was
C12_SecondDetectionPasses ==
    /\ [](\A u \in LocalUrls :
             (/\ BagIn(u, pending)
              /\ ~Covered(forwarded, u)
              /\ Scanning(auto) # {}
              /\ BagCardinality(pending) + Cardinality(Scanning(auto))
                     <= MaxPending)
                 => ENABLED Requests(u))
    /\ [][BagCardinality(pending') > BagCardinality(pending)
             => forwarded' = forwarded]_vars

\* C12 witness: two requests for the same URL are in flight, issued by two
\* detections of the only scanner there has been
C12_Witness ==
    \E u \in LocalUrls :
        /\ CopiesIn(u, pending) = 2
        /\ Len(auto.finders) = 1

\* a detection of u by the live scanners makes each of their match
\* listeners issue one forward request for u
OneRequestPerListener ==
    \A u \in LocalUrls :
        (/\ auto' = auto
         /\ forwarded' = forwarded
         /\ ~Covered(forwarded, u)
         /\ TerminalData(u))
            => /\ CopiesIn(u, pending') =
                      CopiesIn(u, pending) + Cardinality(Scanning(auto))
               /\ \A w \in LocalUrls \ {u} :
                      CopiesIn(w, pending') = CopiesIn(w, pending)

\* the tunnel model reports the first forward, asked for by a detection,
\* to a live ForwardedPortsView
FirstForwardReported ==
    /\ forwarded = {}
    /\ ~view.disposed
    /\ \E u \in LocalUrls : ForwardComplete(u, TRUE)

\* C13 as claimed: a detected URL that no entry covers gets one forward
\* request from each live scanner's match listener, and once the tunnel
\* model reports the first forward the badge shows 1 and the status-bar
\* entry exists
C13_DetectForwardBadge ==
    /\ [][OneRequestPerListener]_vars
    /\ [][FirstForwardReported
             => /\ Size(forwarded') = 1
                /\ view'.activity = <<1>>
                /\ Cardinality(Live(view'.entries)) = 1]_vars

\* C13 amended: as claimed, with the badge showing 1 when the
\* forwarded-ports panel is registered and no badge when it is not
C13_DetectForwardBadgeOnceRegistered ==
    /\ [][OneRequestPerListener]_vars
    /\ [][FirstForwardReported
             => /\ Size(forwarded') = 1
                /\ view'.activity = IF view.registered > 0 THEN <<1>>
                                    ELSE <<>>
                /\ Cardinality(Live(view'.entries)) = 1]_vars

\* C13 witness: the request for 127.0.0.1:3000 has just completed from an
\* empty map: the map holds that address alone, the badge shows 1 and the
\* status-bar entry exists
C13_Witness ==
    /\ forwarded = {MakeAddress("127.0.0.1", 3000)}
    /\ notification = <<[entry |-> TRUE, prompts |-> 1]>>
    /\ ~view.disposed
    /\ view.activity = <<1>>
    /\ view.entries = <<"live">>

\* C14: a step that changes the forwarded map adds or removes one entry,
\* and is no handler of AutomaticPortForwarding or of the capability flag:
\* the controller's fields, the flag and the setting are as before, no
\* request has been issued, and ForwardedPortsView has not re-registered or
\* been torn down
C14_OnlyTunnelServiceWrites ==
    [][forwarded' # forwarded
          => /\ \E a \in Addresses :
                    \/ a \notin forwarded /\ forwarded' = forwarded \cup {a}
                    \/ a \in forwarded /\ forwarded' = forwarded \ {a}
             /\ auto' = auto
             /\ viewEnabled' = viewEnabled
             /\ setting' = setting
             /\ BagCardinality(pending') <= BagCardinality(pending)
             /\ view'.registered = view.registered
             /\ view'.contextKeyListener = view.contextKeyListener
             /\ view'.disposed = view.disposed]_vars

\* C14 witness: with an entry in the map, the scanner has issued a request
\* for another URL and the flag has since changed to false
C14_Witness ==
    /\ Size(forwarded) = 1
    /\ BagCardinality(pending) = 1
    /\ Len(auto.finders) >= 1
    /\ view.registered = 1
    /\ ~viewEnabled

\* C15 as claimed: with a remote authority and the setting enabled, a
\* change of the flag to true while no scanner is live starts a scanner
C15_StartsWhenFlagBecomesTrue ==
    [][(/\ remoteAuthority
        /\ setting
        /\ ~auto.disposed
        /\ Live(auto.finders) = {}
        /\ ~viewEnabled
        /\ viewEnabled')
          => Live(auto'.finders) # {}]_vars

\* C16 as claimed: when a scanner is live and the flag becomes false, the
\* scanner is stopped and a capability listener is attached again
C16_StopsWhenFlagBecomesFalse ==
    [][(/\ ~auto.disposed
        /\ Live(auto.finders) # {}
        /\ viewEnabled
        /\ ~viewEnabled')
          => /\ Live(auto'.finders) = {}
             /\ auto'.urlFinder = 0
             /\ auto'.contextServiceListener = "attached"]_vars

\* a context change makes the flag true while ForwardedPortsView listens
\* for it, in a window with a remote authority
FlagBecomesTrueWhileListening ==
    /\ remoteAuthority
    /\ view.contextKeyListener
    /\ ~viewEnabled
    /\ viewEnabled'

\* C17 as claimed: the panel is registered by the end of that handler
C17_RegisteredWhenFlagBecomesTrue ==
    [][FlagBecomesTrueWhileListening => view'.registered = 1]_vars

\* C17 amended: the panel is registered by the end of that handler when
\* the view registry holds the remote view container, and is not registered
\* when it does not
C17_RegisteredWhenContainerFound ==
    [][FlagBecomesTrueWhileListening
          => view'.registered = IF hasViewContainer THEN 1 ELSE 0]_vars

\* C17 witness: the map gained, lost and gained a port while the panel was
\* not registered, so that no badge was shown or released; the flag then
\* became true and the handler registered the panel, which shows its first
\* badge
C17_Witness ==
    /\ remoteAuthority
    /\ hasViewContainer
    /\ viewEnabled
    /\ view.registered = 1
    /\ ~view.contextKeyListener
    /\ view.entries = <<"disposed", "live">>
    /\ view.activity = <<1>>
    /\ view.redisposed = {}

\* C18 as claimed: a scanner is created only by a step in which the
\* setting is enabled and the flag is true
C18_CreatesOnlyWhenEnabled ==
    [][Len(auto'.finders) > Len(auto.finders)
          => setting' /\ viewEnabled']_vars

\* C19 as claimed: without a remote authority no scanner is ever created
\* and no forward request is ever issued
C19_NothingWithoutRemote ==
    ~remoteAuthority => auto.finders = <<>> /\ pending = EmptyBag

\* C20: the activity service shows at most one badge of ForwardedPortsView:
\* the one this._activityBadge holds, when that has not been released
C20_OneActivityBadge ==
    /\ Len(view.activity) <= 1
    /\ view.activity =
           IF view.activityBadge # <<>> /\ ~view.activityBadge[1].disposed
           THEN <<view.activityBadge[1].number>>
           ELSE <<>>

\* C20 witness: a badge was shown, released when the map emptied, and a
\* new one is shown for the port forwarded since
C20_Witness ==
    /\ view.activity = <<1>>
    /\ view.activityBadge = <<[number |-> 1, disposed |-> FALSE]>>
    /\ view.entries = <<"disposed", "live">>

====
